---------------------------- MODULE Spec2Model ----------------------------
(***************************************************************************)
(* wsl-ssh-askpass (src/src/main.rs): the askpass helper an SSH client     *)
(* runs to answer one prompt.  A Rust `String`/`&str` is modelled as the   *)
(* sequence of its Unicode scalar values (integers), a credential blob as  *)
(* a sequence of bytes, a UTF-16 buffer as a sequence of 16-bit units.     *)
(* `Option<T>` is a sequence of length 0 (None) or 1 (Some).               *)
(***************************************************************************)
EXTENDS Integers, Sequences, FiniteSets, TLC

VARIABLES
    clock,      \* SystemTime::now() as seconds since UNIX_EPOCH
    store,      \* the Windows credential store: target name -> [blob, persist]
    proc,       \* per process: control point and locals of main/handle_passphrase
    started,    \* number of invocations started so far
    ticks,      \* number of clock advances so far
    refreshed   \* history: gate name -> time of the last successful timestamp write

vars == <<clock, store, proc, started, ticks, refreshed>>

---------------------------------------------------------------------------
(* Text: characters are code points.                                       *)

None == <<>>
Some(x) == <<x>>

\* the characters the code names
Ch == [apos |-> 39, slash |-> 47, bslash |-> 92, colon |-> 58, plus |-> 43,
       zero |-> 48, nine |-> 57, repl |-> 65533]

CACHE_PIN_TTL_SECS == 60 * 5

\* "wsl-ssh-askpass"
CRED_PREFIX == <<119, 115, 108, 45, 115, 115, 104, 45, 97, 115, 107, 112, 97, 115, 115>>

StrDefault == <<100, 101, 102, 97, 117, 108, 116>>                 \* "default"
StrTemp == <<116, 101, 109, 112>>                                  \* "temp"
StrYesNo == <<121, 101, 115, 47, 110, 111>>                        \* "yes/no"
StrFingerprint == <<102, 105, 110, 103, 101, 114, 112, 114, 105, 110, 116>>  \* "fingerprint"
StrYes == <<121, 101, 115>>                                        \* "yes"
StrNo == <<110, 111>>                                              \* "no"

\* str::find(char): index of the first occurrence, 0 for None
Find(s, c) ==
    IF \E i \in 1..Len(s) : s[i] = c
    THEN CHOOSE i \in 1..Len(s) : s[i] = c /\ \A j \in 1..(i - 1) : s[j] # c
    ELSE 0

\* str::rsplit(c).next(): the text after the last c, the whole text without a c;
\* rsplit yields at least one item, so the result is always Some
RSplitNext(s, c) ==
    IF \E i \in 1..Len(s) : s[i] = c
    THEN LET last == CHOOSE i \in 1..Len(s) :
                        s[i] = c /\ \A j \in (i + 1)..Len(s) : s[j] # c
         IN  Some(SubSeq(s, last + 1, Len(s)))
    ELSE Some(s)

\* Option::or_else / Option::unwrap_or
OrElse(opt, alt) == IF opt # None THEN opt ELSE alt
UnwrapOr(opt, dflt) == IF opt # None THEN opt[1] ELSE dflt

extract_key_name(prompt) ==
    LET start == Find(prompt, Ch.apos) IN
    IF start = 0 THEN StrDefault
    ELSE LET rest == SubSeq(prompt, start + 1, Len(prompt))
             end == Find(rest, Ch.apos)
         IN  IF end = 0 THEN StrDefault
             ELSE LET key_path == SubSeq(rest, 1, end - 1)
                  IN  UnwrapOr(OrElse(RSplitNext(key_path, Ch.slash),
                                      RSplitNext(key_path, Ch.bslash)),
                               key_path)

cred_name(key) == CRED_PREFIX \o <<Ch.colon>> \o key

hello_cred_name(key) == CRED_PREFIX \o <<Ch.colon>> \o key \o <<Ch.colon>> \o StrTemp

\* char::to_lowercase: ASCII and Latin-1 capitals map to one character,
\* U+0130 maps to two ("i" and U+0307); the other characters of the model
\* alphabet have no lowercase mapping
LowerChar(c) ==
    IF c \in 65..90 THEN <<c + 32>>
    ELSE IF c \in 192..222 /\ c # 215 THEN <<c + 32>>
    ELSE IF c = 304 THEN <<105, 775>>
    ELSE <<c>>

RECURSIVE to_lowercase(_)
to_lowercase(s) ==
    IF s = <<>> THEN <<>> ELSE LowerChar(Head(s)) \o to_lowercase(Tail(s))

\* str::contains(&str)
Contains(s, t) ==
    \E i \in 1..(Len(s) - Len(t) + 1) : SubSeq(s, i, i + Len(t) - 1) = t

IsHostKeyPrompt_M9(prompt) ==
    Contains(prompt, StrYesNo) \/ Contains(prompt, StrFingerprint)

\* main: prompt_lower.contains("yes/no") || prompt_lower.contains("fingerprint")
IsHostKeyPrompt(prompt) ==
    LET prompt_lower == to_lowercase(prompt)
    IN  Contains(prompt_lower, StrYesNo) \/ Contains(prompt_lower, StrFingerprint)

---------------------------------------------------------------------------
(* Conversions between text, bytes and UTF-16 units.                       *)

IsDigit(c) == c \in Ch.zero..Ch.nine

\* u64::to_string: the decimal digits, most significant first
RECURSIVE to_string(_)
to_string(n) ==
    IF n < 10 THEN <<Ch.zero + n>>
    ELSE to_string(n \div 10) \o <<Ch.zero + (n % 10)>>

RECURSIVE StripZeros(_)
StripZeros(d) ==
    IF d # <<>> /\ Head(d) = Ch.zero THEN StripZeros(Tail(d)) ELSE d

RECURSIVE DigitsValue(_)
DigitsValue(d) ==
    IF d = <<>> THEN 0
    ELSE 10 * DigitsValue(SubSeq(d, 1, Len(d) - 1)) + (d[Len(d)] - Ch.zero)

\* u64::MAX = 18446744073709551615 as digits
U64MaxDigits == <<49, 56, 52, 52, 54, 55, 52, 52, 48, 55, 51, 55, 48, 57, 53, 53, 49, 54, 49, 53>>

\* a > b for digit sequences of equal length
DigitsGreater(a, b) ==
    \E i \in 1..Len(a) : a[i] > b[i] /\ \A j \in 1..(i - 1) : a[j] = b[j]

\* the digits denote a number above u64::MAX (the checked multiply/add overflows)
OverflowsU64(d) ==
    LET sig == StripZeros(d)
    IN  \/ Len(sig) > Len(U64MaxDigits)
        \/ Len(sig) = Len(U64MaxDigits) /\ DigitsGreater(sig, U64MaxDigits)

\* str::parse::<u64>(): an optional leading '+', then one or more decimal
\* digits whose value fits 64 bits; anything else is Err (None here)
ParseU64(s) ==
    LET digits == IF s # <<>> /\ s[1] = Ch.plus THEN Tail(s) ELSE s
    IN  IF digits = <<>> THEN None
        ELSE IF \E i \in 1..Len(digits) : ~IsDigit(digits[i]) THEN None
        ELSE IF OverflowsU64(digits) THEN None
        ELSE Some(DigitsValue(StripZeros(digits)))

\* one character's UTF-8 bytes
Utf8Char(c) ==
    IF c < 128 THEN <<c>>
    ELSE IF c < 2048 THEN <<192 + (c \div 64), 128 + (c % 64)>>
    ELSE IF c < 65536
         THEN <<224 + (c \div 4096), 128 + ((c \div 64) % 64), 128 + (c % 64)>>
    ELSE <<240 + (c \div 262144), 128 + ((c \div 4096) % 64),
           128 + ((c \div 64) % 64), 128 + (c % 64)>>

\* str::as_bytes: a String's bytes are the UTF-8 encoding of its characters
RECURSIVE as_bytes(_)
as_bytes(s) == IF s = <<>> THEN <<>> ELSE Utf8Char(Head(s)) \o as_bytes(Tail(s))

IsCont(b) == b \in 128..191

\* the range the second byte of a sequence led by b must lie in
SecondOk(b, x) ==
    IF b = 224 THEN x \in 160..191
    ELSE IF b = 237 THEN x \in 128..159
    ELSE IF b = 240 THEN x \in 144..191
    ELSE IF b = 244 THEN x \in 128..143
    ELSE IsCont(x)

\* how many bytes a sequence led by b has; 0 for a byte that leads nothing
SeqWidth(b) ==
    IF b < 128 THEN 1
    ELSE IF b \in 194..223 THEN 2
    ELSE IF b \in 224..239 THEN 3
    ELSE IF b \in 240..244 THEN 4
    ELSE 0

\* the number of bytes from position 1 that form a valid prefix of one sequence
ValidPrefix(bs) ==
    LET w == SeqWidth(bs[1]) IN
    IF w <= 1 THEN 1
    ELSE IF Len(bs) < 2 \/ ~SecondOk(bs[1], bs[2]) THEN 1
    ELSE IF w = 2 THEN 2
    ELSE IF Len(bs) < 3 \/ ~IsCont(bs[3]) THEN 2
    ELSE IF w = 3 THEN 3
    ELSE IF Len(bs) < 4 \/ ~IsCont(bs[4]) THEN 3
    ELSE 4

DecodeOne(bs, w) ==
    IF w = 1 THEN bs[1]
    ELSE IF w = 2 THEN (bs[1] - 192) * 64 + (bs[2] - 128)
    ELSE IF w = 3 THEN (bs[1] - 224) * 4096 + (bs[2] - 128) * 64 + (bs[3] - 128)
    ELSE (bs[1] - 240) * 262144 + (bs[2] - 128) * 4096 + (bs[3] - 128) * 64 + (bs[4] - 128)

\* String::from_utf8_lossy: valid sequences decode, each maximal invalid
\* part becomes U+FFFD
RECURSIVE from_utf8_lossy(_)
from_utf8_lossy(bs) ==
    IF bs = <<>> THEN <<>>
    ELSE LET w == SeqWidth(bs[1])
             n == ValidPrefix(bs)
         IN  IF w > 0 /\ n = w
             THEN <<DecodeOne(bs, w)>> \o from_utf8_lossy(SubSeq(bs, w + 1, Len(bs)))
             ELSE <<Ch.repl>> \o from_utf8_lossy(SubSeq(bs, n + 1, Len(bs)))

IsHighSurrogate(u) == u \in 55296..56319
IsLowSurrogate(u) == u \in 56320..57343

\* the UTF-16 units of one character, as the password field holds it
Utf16Char(c) ==
    IF c < 65536 THEN <<c>>
    ELSE <<55296 + ((c - 65536) \div 1024), 56320 + ((c - 65536) % 1024)>>

RECURSIVE encode_utf16(_)
encode_utf16(s) ==
    IF s = <<>> THEN <<>> ELSE Utf16Char(Head(s)) \o encode_utf16(Tail(s))

\* String::from_utf16_lossy: surrogate pairs combine, a lone surrogate
\* becomes U+FFFD
RECURSIVE from_utf16_lossy(_)
from_utf16_lossy(us) ==
    IF us = <<>> THEN <<>>
    ELSE IF IsHighSurrogate(us[1]) /\ Len(us) >= 2 /\ IsLowSurrogate(us[2])
         THEN <<65536 + (us[1] - 55296) * 1024 + (us[2] - 56320)>>
                  \o from_utf16_lossy(SubSeq(us, 3, Len(us)))
    ELSE IF IsHighSurrogate(us[1]) \/ IsLowSurrogate(us[1])
         THEN <<Ch.repl>> \o from_utf16_lossy(Tail(us))
    ELSE <<us[1]>> \o from_utf16_lossy(Tail(us))

---------------------------------------------------------------------------
(* Bounds and the inputs the environment chooses from.                     *)

MaxInvocations == 2     \* invocations of the program in one behaviour
MaxTicks == 2           \* clock advances in one behaviour
StartClock == 1000      \* the clock value of the initial state

\* the processes; Spec runs them one after the other as process 1
Procs == {1, 2}
Solo == {1}

\* seconds the clock may advance by in one step
TickSteps == {1, 299}

\* "Are you sure you want to continue connecting (yes/no)?" in short: "(yes/no)"
PromptHostKey == <<40, 121, 101, 115, 47, 110, 111, 41>>
\* "for key '/h/k':"
PromptKey == <<102, 111, 114, 32, 107, 101, 121, 32, 39, 47, 104, 47, 107, 39, 58>>

\* the prompts the program is started with
Prompts == {PromptHostKey, PromptKey}

\* what the user may type into the password field: "s", and "e-acute" followed
\* by U+1F600 (two and four UTF-8 bytes, one UTF-16 unit and a surrogate pair)
Passphrases == {<<115>>, <<233, 128512>>}

\* blobs another program may leave in a gate record: empty, an invalid UTF-8
\* byte, "-1", a time in the future, a number above u64::MAX
ForeignBlobs == {<<>>, <<255>>, <<45, 49>>, <<57, 57, 57, 57, 57>>, U64MaxDigits \o <<48>>}

\* the outcomes of the Windows Hello calls of verify_with_hello_inner: the
\* availability query fails or does not say Available, the interop factory
\* fails, the verification request fails, or it returns a result
HelloOutcomes == {"availability_error", "not_available", "factory_error",
                  "request_error", "verified", "not_verified"}

---------------------------------------------------------------------------
(* The credential store and the functions over it.                         *)

Put(f, k, v) == [x \in (DOMAIN f) \cup {k} |-> IF x = k THEN v ELSE f[x]]
Remove(f, ks) == [x \in (DOMAIN f) \ ks |-> f[x]]

\* CredReadW(name, CRED_TYPE_GENERIC): the blob, or an error (None) without a record
CredReadW(st, name) == IF name \in DOMAIN st THEN Some(st[name].blob) ELSE None

CredWriteW_M17(st, name, blob, persist) ==
    IF name \in DOMAIN st THEN st
    ELSE Put(st, name, [blob |-> blob, persist |-> persist])

\* CredWriteW: one record per target name, the new one replaces the old
CredWriteW(st, name, blob, persist) == Put(st, name, [blob |-> blob, persist |-> persist])

get_cached_passphrase(st, key) ==
    LET r == CredReadW(st, cred_name(key))
    IN  IF r # None THEN Some(from_utf8_lossy(r[1])) ELSE None

TtlCheck_M1(now, stored) == now - stored > CACHE_PIN_TTL_SECS

TtlCheck_M6(now, stored) == now - stored <= CACHE_PIN_TTL_SECS

\* is_hello_valid, line 271, for stored <= now
TtlCheck(now, stored) == now - stored < CACHE_PIN_TTL_SECS

\* `now - stored` on u64.  With stored > now the subtraction overflows: a build
\* with overflow checks panics, a build without wraps to 2^64 - (stored - now),
\* which is above the TTL for every stored value the model holds (below 2^31).
SubCompare(now, stored) ==
    IF stored <= now
    THEN {IF TtlCheck(now, stored) THEN "true" ELSE "false"}
    ELSE {"panic", "false"}

is_hello_valid_M5(st, now, key) ==
    LET r == CredReadW(st, hello_cred_name(key))
    IN  IF r = None THEN {"false"}
        ELSE LET parsed == ParseU64(from_utf8_lossy(r[1]))
             IN  IF parsed = None THEN SubCompare(now, now) ELSE SubCompare(now, parsed[1])

\* the outcomes of is_hello_valid(key) at time now: "true", "false" or "panic"
is_hello_valid(st, now, key) ==
    LET r == CredReadW(st, hello_cred_name(key))
    IN  IF r = None THEN {"false"}
        ELSE LET parsed == ParseU64(from_utf8_lossy(r[1]))
             IN  IF parsed = None THEN {"false"} ELSE SubCompare(now, parsed[1])

\* verify_with_hello_inner: Err is None, Ok(b) is Some(b)
verify_with_hello_inner(outcome) ==
    IF outcome = "availability_error" THEN None
    ELSE IF outcome = "not_available" THEN Some(FALSE)
    ELSE IF outcome = "factory_error" THEN None
    ELSE IF outcome = "request_error" THEN None
    ELSE Some(outcome = "verified")

verify_with_hello_M2(outcome) == UnwrapOr(verify_with_hello_inner(outcome), TRUE)

\* verify_with_hello: unwrap_or(false)
verify_with_hello(outcome) == UnwrapOr(verify_with_hello_inner(outcome), FALSE)

HelloCalls_M14(outcome) ==
    IF outcome = "availability_error" THEN <<<<"CheckAvailabilityAsync", "error">>>>
    ELSE IF outcome = "factory_error" THEN <<<<"CheckAvailabilityAsync", "Available">>>>
    ELSE <<<<"CheckAvailabilityAsync",
             IF outcome = "not_available" THEN "NotAvailable" ELSE "Available">>,
           <<"RequestVerificationForWindowAsync",
             IF outcome = "request_error" THEN "error"
             ELSE IF outcome = "verified" THEN "Verified" ELSE "Canceled">>>>

\* the calls verify_with_hello_inner makes before it returns
HelloCalls(outcome) ==
    IF outcome = "availability_error" THEN <<<<"CheckAvailabilityAsync", "error">>>>
    ELSE IF outcome = "not_available" THEN <<<<"CheckAvailabilityAsync", "NotAvailable">>>>
    ELSE IF outcome = "factory_error" THEN <<<<"CheckAvailabilityAsync", "Available">>>>
    ELSE <<<<"CheckAvailabilityAsync", "Available">>,
           <<"RequestVerificationForWindowAsync",
             IF outcome = "request_error" THEN "error"
             ELSE IF outcome = "verified" THEN "Verified" ELSE "Canceled">>>>

TimestampBlob_M3(now) == as_bytes(to_string(0))

\* update_hello_timestamp, lines 282-287: the blob written
TimestampBlob(now) == as_bytes(to_string(now))

UnpackPassword_M4(password, password_len) ==
    from_utf16_lossy(SubSeq(password, 1, password_len))

\* prompt_for_password, lines 210-211: the password the dialog left in the
\* buffer (its units and the terminating 0, password_len counting both)
UnpackPassword(password, password_len) ==
    LET pass_len == IF password_len >= 1 THEN password_len - 1 ELSE 0
    IN  from_utf16_lossy(SubSeq(password, 1, pass_len))

MainOutcome_M10(answer) ==
    IF answer # None THEN [stdout |-> answer[1], exit |-> 0]
    ELSE [stdout |-> <<>>, exit |-> 0]

\* main, lines 73-79: what the process prints and the code it exits with
MainOutcome(answer) ==
    IF answer # None THEN [stdout |-> answer[1], exit |-> 0]
    ELSE [stdout |-> <<>>, exit |-> 1]

---------------------------------------------------------------------------
(* The program: one process per invocation of main.                        *)

\* a process that has not been started
IdleProc ==
    [pc |-> "idle", prompt |-> <<>>, key_name |-> <<>>, cached |-> None,
     entered |-> None, pass |-> None, save |-> FALSE, calls |-> <<>>,
     stdout |-> <<>>, exit |-> -1]

\* one call of an operating-system service, as the process made it
\* (arg: the record or key named, data: the blob read or written, res: the result)
Call(api, arg, data, res) ==
    [api |-> api, arg |-> arg, data |-> data, res |-> res, at |-> clock]

Running(p) == proc[p].pc \notin {"idle", "exited"}

Init ==
    /\ clock = StartClock
    /\ store = <<>>
    /\ proc = [p \in Procs |-> IdleProc]
    /\ started = 0
    /\ ticks = 0
    /\ refreshed = <<>>

\* main, lines 61-72: read the prompt and choose the path
Main(p, pr) ==
    /\ proc[p].pc = "idle"
    /\ started < MaxInvocations
    /\ started' = started + 1
    /\ proc' = [proc EXCEPT ![p] =
                  IF IsHostKeyPrompt(pr)
                  THEN [IdleProc EXCEPT !.pc = "prompt_yes_no", !.prompt = pr]
                  ELSE [IdleProc EXCEPT !.pc = "get_cached_passphrase", !.prompt = pr,
                                        !.key_name = extract_key_name(pr)]]
    /\ UNCHANGED <<clock, store, ticks, refreshed>>

\* prompt_yes_no and main, lines 69-70 and 79: the message box, then the answer
\* is printed and the process ends
PromptYesNo(p, result) ==
    /\ proc[p].pc = "prompt_yes_no"
    /\ proc' = [proc EXCEPT ![p] =
                  [@ EXCEPT !.pc = "exited",
                            !.calls = Append(@, Call("MessageBoxW", proc[p].prompt, <<>>, result)),
                            !.stdout = IF result = "IDYES" THEN StrYes ELSE StrNo,
                            !.exit = 0]]
    /\ UNCHANGED <<clock, store, started, ticks, refreshed>>

\* handle_passphrase, line 86: the cache lookup
GetCachedPassphrase(p) ==
    /\ proc[p].pc = "get_cached_passphrase"
    /\ LET name == cred_name(proc[p].key_name)
           r == CredReadW(store, name)
           c == get_cached_passphrase(store, proc[p].key_name)
       IN  proc' = [proc EXCEPT ![p] =
                      [@ EXCEPT !.pc = IF c # None THEN "is_hello_valid"
                                       ELSE "prompt_for_password",
                                !.cached = c,
                                !.calls = Append(@, Call("CredReadW", name,
                                                         UnwrapOr(r, <<>>),
                                                         IF r # None THEN "found"
                                                         ELSE "not_found"))]]
    /\ UNCHANGED <<clock, store, started, ticks, refreshed>>

\* handle_passphrase, line 87, left operand: is the gate fresh
IsHelloValid(p) ==
    /\ proc[p].pc = "is_hello_valid"
    /\ \E o \in is_hello_valid(store, clock, proc[p].key_name) :
         LET name == hello_cred_name(proc[p].key_name)
             r == CredReadW(store, name)
             c == Call("CredReadW", name, UnwrapOr(r, <<>>),
                       IF r # None THEN "found" ELSE "not_found")
         IN  proc' = [proc EXCEPT ![p] =
                        IF o = "panic"
                        THEN [@ EXCEPT !.pc = "exited", !.calls = Append(@, c), !.exit = 101]
                        ELSE IF o = "true"
                        THEN [@ EXCEPT !.pc = "update_hello_timestamp",
                                       !.calls = Append(@, c), !.pass = proc[p].cached]
                        ELSE [@ EXCEPT !.pc = "verify_with_hello", !.calls = Append(@, c)]]
    /\ UNCHANGED <<clock, store, started, ticks, refreshed>>

VerifyWithHello_M11(p, outcome) ==
    /\ proc[p].pc = "verify_with_hello"
    /\ LET hc == HelloCalls(outcome)
           made == [i \in 1..Len(hc) |->
                      Call(hc[i][1], proc[p].key_name, <<>>, hc[i][2])]
           m == MainOutcome(proc[p].cached)
       IN  proc' = [proc EXCEPT ![p] =
                      IF verify_with_hello(outcome)
                      THEN [@ EXCEPT !.pc = "exited",
                                     !.calls = @ \o made,
                                     !.pass = proc[p].cached,
                                     !.stdout = m.stdout, !.exit = m.exit]
                      ELSE [@ EXCEPT !.pc = "prompt_for_password",
                                     !.calls = @ \o made]]
    /\ UNCHANGED <<clock, store, started, ticks, refreshed>>

\* handle_passphrase, line 87, right operand: ask Windows Hello
VerifyWithHello(p, outcome) ==
    /\ proc[p].pc = "verify_with_hello"
    /\ LET hc == HelloCalls(outcome)
           made == [i \in 1..Len(hc) |->
                      Call(hc[i][1], proc[p].key_name, <<>>, hc[i][2])]
       IN  proc' = [proc EXCEPT ![p] =
                      IF verify_with_hello(outcome)
                      THEN [@ EXCEPT !.pc = "update_hello_timestamp",
                                     !.calls = @ \o made,
                                     !.pass = proc[p].cached]
                      ELSE [@ EXCEPT !.pc = "prompt_for_password",
                                     !.calls = @ \o made]]
    /\ UNCHANGED <<clock, store, started, ticks, refreshed>>

PromptCancelled_M18(p) ==
    /\ proc[p].pc = "prompt_for_password"
    /\ LET m == MainOutcome(None)
           name == hello_cred_name(proc[p].key_name)
           blob == TimestampBlob(clock)
       IN  /\ store' = CredWriteW(store, name, blob, "SESSION")
           /\ refreshed' = Put(refreshed, name, clock)
           /\ proc' = [proc EXCEPT ![p] =
                         [@ EXCEPT !.pc = "exited",
                                   !.calls = @ \o
                                       <<Call("CredUIPromptForWindowsCredentialsW",
                                              proc[p].key_name, <<>>, "cancel"),
                                         Call("CredWriteW", name, blob, "written")>>,
                                   !.stdout = m.stdout, !.exit = m.exit]]
    /\ UNCHANGED <<clock, started, ticks>>

\* handle_passphrase, line 94, and main, line 76: prompt_for_password is Err
\* (the dialog is cancelled or fails, or the password does not fit the buffer
\* of 256 units), handle_passphrase returns None and the process exits
PromptCancelled(p) ==
    /\ proc[p].pc = "prompt_for_password"
    /\ LET m == MainOutcome(None)
       IN  proc' = [proc EXCEPT ![p] =
                      [@ EXCEPT !.pc = "exited",
                                !.calls = Append(@, Call("CredUIPromptForWindowsCredentialsW",
                                                         proc[p].key_name, <<>>, "cancel")),
                                !.stdout = m.stdout, !.exit = m.exit]]
    /\ UNCHANGED <<clock, store, started, ticks, refreshed>>

\* handle_passphrase, lines 94-97: the user types `text` and sets the checkbox
PromptForPassword(p, text, save_checked) ==
    /\ proc[p].pc = "prompt_for_password"
    /\ LET password == encode_utf16(text) \o <<0>>
           pass == UnpackPassword(password, Len(password))
       IN  proc' = [proc EXCEPT ![p] =
                      [@ EXCEPT !.pc = IF save_checked THEN "cache_passphrase"
                                       ELSE "update_hello_timestamp",
                                !.calls = Append(@, Call("CredUIPromptForWindowsCredentialsW",
                                                         proc[p].key_name, <<>>, "ok")),
                                !.entered = Some(text),
                                !.pass = Some(pass),
                                !.save = save_checked]]
    /\ UNCHANGED <<clock, store, started, ticks, refreshed>>

CachePassphrase_M15(p, ok) ==
    /\ proc[p].pc = "cache_passphrase"
    /\ LET name == cred_name(proc[p].key_name)
           blob == as_bytes(proc[p].pass[1])
           m == MainOutcome(None)
       IN  /\ store' = IF ok THEN CredWriteW(store, name, blob, "LOCAL_MACHINE") ELSE store
           /\ refreshed' = IF ok THEN Remove(refreshed, {name}) ELSE refreshed
           /\ proc' = [proc EXCEPT ![p] =
                         IF ok
                         THEN [@ EXCEPT !.pc = "update_hello_timestamp",
                                        !.calls = Append(@, Call("CredWriteW", name, blob,
                                                                 "written"))]
                         ELSE [@ EXCEPT !.pc = "exited",
                                        !.calls = Append(@, Call("CredWriteW", name, blob,
                                                                 "error")),
                                        !.stdout = m.stdout, !.exit = m.exit]]
    /\ UNCHANGED <<clock, started, ticks>>

\* handle_passphrase, line 96: cache_passphrase, its error dropped
CachePassphrase(p, ok) ==
    /\ proc[p].pc = "cache_passphrase"
    /\ LET name == cred_name(proc[p].key_name)
           blob == as_bytes(proc[p].pass[1])
       IN  /\ store' = IF ok THEN CredWriteW(store, name, blob, "LOCAL_MACHINE") ELSE store
           /\ refreshed' = IF ok THEN Remove(refreshed, {name}) ELSE refreshed
           /\ proc' = [proc EXCEPT ![p] =
                         [@ EXCEPT !.pc = "update_hello_timestamp",
                                   !.calls = Append(@, Call("CredWriteW", name, blob,
                                                            IF ok THEN "written" ELSE "error"))]]
    /\ UNCHANGED <<clock, started, ticks>>

\* handle_passphrase, lines 88-89 and 98-99, and main, lines 74 and 79:
\* update_hello_timestamp, its error dropped, then the passphrase is returned
\* and printed and the process ends
UpdateHelloTimestamp(p, ok) ==
    /\ proc[p].pc = "update_hello_timestamp"
    /\ LET name == hello_cred_name(proc[p].key_name)
           blob == TimestampBlob(clock)
           m == MainOutcome(proc[p].pass)
       IN  /\ store' = IF ok THEN CredWriteW(store, name, blob, "SESSION") ELSE store
           /\ refreshed' = IF ok THEN Put(refreshed, name, clock) ELSE refreshed
           /\ proc' = [proc EXCEPT ![p] =
                         [@ EXCEPT !.pc = "exited",
                                   !.calls = Append(@, Call("CredWriteW", name, blob,
                                                            IF ok THEN "written" ELSE "error")),
                                   !.stdout = m.stdout, !.exit = m.exit]]
    /\ UNCHANGED <<clock, started, ticks>>

---------------------------------------------------------------------------
(* The environment.                                                        *)

\* a process waits for the user: the message box, the Windows Hello prompt
\* or the password dialog is open
Waiting(p) == proc[p].pc \in {"prompt_yes_no", "verify_with_hello", "prompt_for_password"}

\* time passes, between invocations and while a process waits for the user;
\* the calls of the credential store take no time
Tick(d) ==
    /\ \A p \in Procs : ~Running(p) \/ Waiting(p)
    /\ ticks < MaxTicks
    /\ ticks' = ticks + 1
    /\ clock' = clock + d
    /\ UNCHANGED <<store, proc, started, refreshed>>

\* the parent has the exit status and the output of a process that ended, and
\* another invocation may follow
Reap(p) ==
    /\ proc[p].pc = "exited"
    /\ started < MaxInvocations
    /\ proc' = [proc EXCEPT ![p] = IdleProc]
    /\ UNCHANGED <<clock, store, started, ticks, refreshed>>

\* no process is running or waited for, and one more will be started: the
\* store matters only to a later invocation
Quiet == started < MaxInvocations /\ \A p \in Procs : proc[p].pc = "idle"

\* logoff: the records written with CRED_PERSIST_SESSION are gone
SessionEnd ==
    /\ Quiet
    /\ \E n \in DOMAIN store : store[n].persist = "SESSION"
    /\ LET gone == {n \in DOMAIN store : store[n].persist = "SESSION"}
       IN  /\ store' = Remove(store, gone)
           /\ refreshed' = Remove(refreshed, gone)
    /\ UNCHANGED <<clock, proc, started, ticks>>

\* another program (the credential manager) removes a record
ExternalDelete(n) ==
    /\ Quiet
    /\ n \in DOMAIN store
    /\ store' = Remove(store, {n})
    /\ refreshed' = Remove(refreshed, {n})
    /\ UNCHANGED <<clock, proc, started, ticks>>

\* another program overwrites a gate record
ExternalWrite(n, blob) ==
    /\ Quiet
    /\ n \in DOMAIN store
    /\ store[n].persist = "SESSION"
    /\ store' = [store EXCEPT ![n].blob = blob]
    /\ refreshed' = Remove(refreshed, {n})
    /\ UNCHANGED <<clock, proc, started, ticks>>

Next ==
    \/ \E p \in Solo, pr \in Prompts : Main(p, pr)
    \/ \E p \in Solo, result \in {"IDYES", "IDNO"} : PromptYesNo(p, result)
    \/ \E p \in Solo : GetCachedPassphrase(p)
    \/ \E p \in Solo : IsHelloValid(p)
    \/ \E p \in Solo, outcome \in HelloOutcomes : VerifyWithHello(p, outcome)
    \/ \E p \in Solo : PromptCancelled(p)
    \/ \E p \in Solo, text \in Passphrases, save_checked \in BOOLEAN :
           PromptForPassword(p, text, save_checked)
    \/ \E p \in Solo, ok \in BOOLEAN : CachePassphrase(p, ok)
    \/ \E p \in Solo, ok \in BOOLEAN : UpdateHelloTimestamp(p, ok)
    \/ \E p \in Solo : Reap(p)
    \/ \E d \in TickSteps : Tick(d)
    \/ SessionEnd
    \/ \E n \in DOMAIN store : ExternalDelete(n)
    \/ \E n \in DOMAIN store, blob \in ForeignBlobs : ExternalWrite(n, blob)

Spec == Init /\ [][Next]_vars

---------------------------------------------------------------------------
(* The dispatch of one invocation over a larger space of prompts: every    *)
(* text over quote, slash, backslash and a letter, and the two tokens the  *)
(* dispatcher looks for, in every mix of capitals and nearly spelled.      *)

MaxPromptLen == 5       \* the longest enumerated prompt

\* ' / \ a
PathAlphabet == {Ch.apos, Ch.slash, Ch.bslash, 97}

RECURSIVE SeqsUpTo(_, _)
SeqsUpTo(S, n) ==
    IF n = 0 THEN {<<>>}
    ELSE LET shorter == SeqsUpTo(S, n - 1)
         IN  shorter \cup {Append(t, c) : t \in {u \in shorter : Len(u) = n - 1}, c \in S}

\* a lower-case letter and its capital
Cases(c) == IF c \in 97..122 THEN {c, c - 32} ELSE {c}

RECURSIVE CaseVariants(_)
CaseVariants(t) ==
    IF t = <<>> THEN {<<>>}
    ELSE {<<c>> \o r : c \in Cases(Head(t)), r \in CaseVariants(Tail(t))}

UpperAt(t, i) == [t EXCEPT ![i] = IF @ \in 97..122 THEN @ - 32 ELSE @]
AllUpper(t) == [i \in 1..Len(t) |-> IF t[i] \in 97..122 THEN t[i] - 32 ELSE t[i]]
DropAt(t, i) == SubSeq(t, 1, i - 1) \o SubSeq(t, i + 1, Len(t))

\* the tokens as the dispatcher must find them
TokenSpellings ==
    CaseVariants(StrYesNo)
        \cup {StrFingerprint, AllUpper(StrFingerprint)}
        \cup {UpperAt(StrFingerprint, i) : i \in 1..Len(StrFingerprint)}

\* texts one character away from a token: a character missing, or replaced by
\* U+0130 (whose lowercase is "i" and U+0307) or by "|"
NearTokens ==
    LET toks == {StrYesNo, AllUpper(StrYesNo), StrFingerprint}
    IN  UNION {{DropAt(t, i) : i \in 1..Len(t)} : t \in toks}
          \cup UNION {{[t EXCEPT ![i] = c] : i \in 1..Len(t), c \in {304, 124}} : t \in toks}

\* what may stand before and after: nothing, "a", "'/k'"
Affixes == {<<>>, <<97>>, <<39, 47, 107, 39>>}

TokenPrompts ==
    {pre \o t \o post : pre \in Affixes, post \in Affixes, t \in TokenSpellings \cup NearTokens}

PromptSpace == SeqsUpTo(PathAlphabet, MaxPromptLen) \cup TokenPrompts

\* the only invocation of a behaviour
MainOnce(p, pr) == started = 0 /\ Main(p, pr)

NextDispatch ==
    \/ started = 0 /\ \E p \in Solo, pr \in PromptSpace : MainOnce(p, pr)
    \/ \E p \in Solo, result \in {"IDYES", "IDNO"} : PromptYesNo(p, result)
    \/ \E p \in Solo : GetCachedPassphrase(p)
    \/ \E p \in Solo : PromptCancelled(p)
    \/ \E p \in Solo, text \in Passphrases, save_checked \in BOOLEAN :
           PromptForPassword(p, text, save_checked)
    \/ \E p \in Solo, ok \in BOOLEAN : CachePassphrase(p, ok)
    \/ \E p \in Solo, ok \in BOOLEAN : UpdateHelloTimestamp(p, ok)

SpecDispatch == Init /\ [][NextDispatch]_vars

---------------------------------------------------------------------------
(* Invocations for two keys of which one is named as the other followed by *)
(* ":temp" (the files k and k:temp of one directory).                      *)

\* "for key '/h/k:temp':"
PromptKeyTemp ==
    <<102, 111, 114, 32, 107, 101, 121, 32, 39, 47, 104, 47, 107, 58, 116, 101,
      109, 112, 39, 58>>

AliasPrompts == {PromptKey, PromptKeyTemp}

\* the key identifiers of these prompts: "k" and "k:temp"
AliasKeys == {extract_key_name(pr) : pr \in AliasPrompts}

NextAlias ==
    \/ \E p \in Solo, pr \in AliasPrompts : Main(p, pr)
    \/ \E p \in Solo : GetCachedPassphrase(p)
    \/ \E p \in Solo : IsHelloValid(p)
    \/ \E p \in Solo, outcome \in HelloOutcomes : VerifyWithHello(p, outcome)
    \/ \E p \in Solo : PromptCancelled(p)
    \/ \E p \in Solo, text \in Passphrases, save_checked \in BOOLEAN :
           PromptForPassword(p, text, save_checked)
    \/ \E p \in Solo, ok \in BOOLEAN : CachePassphrase(p, ok)
    \/ \E p \in Solo, ok \in BOOLEAN : UpdateHelloTimestamp(p, ok)
    \/ \E p \in Solo : Reap(p)
    \/ SessionEnd

SpecAlias == Init /\ [][NextAlias]_vars

---------------------------------------------------------------------------
(* Two invocations for one key at the same time: two processes, each at   *)
(* its own control point, sharing the credential store; every call of the *)
(* store is one atomic step.                                              *)

\* one step of the passphrase flow of process p
Step(p) ==
    \/ GetCachedPassphrase(p)
    \/ IsHelloValid(p)
    \/ \E outcome \in HelloOutcomes : VerifyWithHello(p, outcome)
    \/ PromptCancelled(p)
    \/ \E text \in Passphrases, save_checked \in BOOLEAN :
           PromptForPassword(p, text, save_checked)
    \/ \E ok \in BOOLEAN : CachePassphrase(p, ok)
    \/ \E ok \in BOOLEAN : UpdateHelloTimestamp(p, ok)

NextConcurrent ==
    \/ \E p \in Procs : Main(p, PromptKey)
    \/ \E p \in Procs : Step(p)
    \/ \E p \in Procs : Reap(p)

SpecConcurrent == Init /\ [][NextConcurrent]_vars

---------------------------------------------------------------------------
(* What an invocation did, read off the calls it made.                     *)

Calls(q, apis) == {i \in 1..Len(q.calls) : q.calls[i].api \in apis}

HelloApis == {"CheckAvailabilityAsync", "RequestVerificationForWindowAsync"}
DialogApis == {"CredUIPromptForWindowsCredentialsW"}
StoreApis == {"CredReadW", "CredWriteW"}

\* the reads of the passphrase record and of the gate record of q's key
CacheReads(q) ==
    {i \in Calls(q, {"CredReadW"}) : q.calls[i].arg = cred_name(q.key_name)}
GateReads(q) ==
    {i \in Calls(q, {"CredReadW"}) : q.calls[i].arg = hello_cred_name(q.key_name)}
GateWrites(q) ==
    {i \in Calls(q, {"CredWriteW"}) : q.calls[i].arg = hello_cred_name(q.key_name)}
CacheWrites(q) ==
    {i \in Calls(q, {"CredWriteW"}) : q.calls[i].arg = cred_name(q.key_name)}

\* q found a cached passphrase
HadCached(q) == \E i \in CacheReads(q) : q.calls[i].res = "found"
HadNoCached(q) == \E i \in CacheReads(q) : q.calls[i].res = "not_found"

\* the gate record q read held a timestamp, at most as late as the clock then
TimestampRead(c) ==
    /\ c.res = "found"
    /\ ParseU64(from_utf8_lossy(c.data)) # None
    /\ ParseU64(from_utf8_lossy(c.data))[1] <= c.at

\* q read the gate when it was fresh: a timestamp less than 300 seconds old
SawFreshGate(q) ==
    \E i \in GateReads(q) :
        /\ TimestampRead(q.calls[i])
        /\ q.calls[i].at - ParseU64(from_utf8_lossy(q.calls[i].data))[1] < 300

\* q read the gate when it was stale: absent, or a timestamp 300 or more seconds old
SawStaleGate(q) ==
    \E i \in GateReads(q) :
        \/ q.calls[i].res = "not_found"
        \/ /\ TimestampRead(q.calls[i])
           /\ q.calls[i].at - ParseU64(from_utf8_lossy(q.calls[i].data))[1] >= 300

\* q read the gate when it was not fresh, whatever it held
SawGateNotFresh(q) == GateReads(q) # {} /\ ~SawFreshGate(q)

HelloAsked(q) == Calls(q, HelloApis) # {}
HelloVerified(q) ==
    \E i \in Calls(q, {"RequestVerificationForWindowAsync"}) : q.calls[i].res = "Verified"

\* the cached passphrase q read, as bytes
CachedBlob(q) == q.calls[CHOOSE i \in CacheReads(q) : TRUE].data

\* the process ended by returning from main or by process::exit, not by a panic
Exited(q) == q.pc = "exited" /\ q.exit # 101

\* the step in which process p ends
Ends(p) == proc[p].pc # "exited" /\ proc'[p].pc = "exited"

---------------------------------------------------------------------------
(* C1 *)

\* C1 (scenario B): in every invocation that found a cached passphrase and
\* read a fresh gate (a parseable timestamp less than 300 seconds old),
\* neither Windows Hello nor the password dialog is ever called, and the
\* invocation ends by printing exactly the cached bytes with exit code 0.
C1_FreshGateReleasesCached ==
    \A p \in Procs :
        LET q == proc[p] IN
        (HadCached(q) /\ SawFreshGate(q)) =>
            /\ Calls(q, HelloApis \cup DialogApis) = {}
            /\ q.pc \in {"update_hello_timestamp", "exited"}
            /\ q.pass # None /\ as_bytes(q.pass[1]) = CachedBlob(q)
            /\ q.pc = "exited" => (q.exit = 0 /\ as_bytes(q.stdout) = CachedBlob(q))

C1_Witness ==
    \E p \in Procs :
        /\ HadCached(proc[p]) /\ SawFreshGate(proc[p])
        /\ proc[p].pc = "exited"
        /\ \E i \in GateReads(proc[p]) :
              proc[p].calls[i].at - ParseU64(from_utf8_lossy(proc[p].calls[i].data))[1] = 299

---------------------------------------------------------------------------
(* C2 *)

\* C2 (scenario D): in every invocation that found a cached passphrase, read a
\* gate that was not fresh and asked Windows Hello without getting "Verified"
\* (unavailable, an error, another result), the password dialog is the next
\* call and is called exactly once, and the outcome is the dialog's: what the
\* user typed is printed with exit code 0, a cancel gives no output and exit
\* code 1.
C2_FailedHelloFallsBackToDialog ==
    \A p \in Procs :
        LET q == proc[p] IN
        (HadCached(q) /\ SawGateNotFresh(q) /\ HelloAsked(q) /\ ~HelloVerified(q)) =>
            /\ Cardinality(Calls(q, DialogApis)) <= 1
            /\ Calls(q, DialogApis) = {} => q.pc = "prompt_for_password"
            /\ Calls(q, DialogApis) # {} =>
                 LET d == q.calls[CHOOSE i \in Calls(q, DialogApis) : TRUE]
                 IN  IF d.res = "cancel"
                     THEN q.pc = "exited" /\ q.exit = 1 /\ q.stdout = <<>> /\ q.pass = None
                     ELSE /\ q.pass = q.entered
                          /\ q.pc = "exited" => (q.exit = 0 /\ q.stdout = q.entered[1])
            /\ q.pc = "exited" => Cardinality(Calls(q, DialogApis)) = 1

C2_Witness ==
    \E p \in Procs :
        LET q == proc[p] IN
        /\ HadCached(q) /\ SawGateNotFresh(q) /\ HelloAsked(q) /\ ~HelloVerified(q)
        /\ q.pc = "exited" /\ q.exit = 0
        /\ as_bytes(q.stdout) # CachedBlob(q)
---------------------------------------------------------------------------
(* C3 *)

\* the gate record of key holds the time now and is_hello_valid is true
GateHoldsNow(st, now, key) ==
    /\ CredReadW(st, hello_cred_name(key)) # None
    /\ ParseU64(from_utf8_lossy(CredReadW(st, hello_cred_name(key))[1])) = Some(now)
    /\ is_hello_valid(st, now, key) = {"true"}

GateWritten(q) == \E i \in GateWrites(q) : q.calls[i].res = "written"

\* scenario C: a cached passphrase, a stale gate (absent, or a timestamp 300 or
\* more seconds old), and Windows Hello answered "Verified"
ScenarioC(q) == HadCached(q) /\ SawStaleGate(q) /\ HelloVerified(q)

\* the cached passphrase was released without the dialog
ReleasedCached(q) ==
    /\ Calls(q, DialogApis) = {}
    /\ q.exit = 0
    /\ as_bytes(q.stdout) = CachedBlob(q)

\* C3 as claimed (scenario C): when such an invocation returns, it has printed
\* the cached passphrase without calling the password dialog, and the gate
\* record then holds the current time, so that is_hello_valid is true.
C3_Original ==
    [][\A p \in Procs :
          (Ends(p) /\ ScenarioC(proc'[p])) =>
              /\ ReleasedCached(proc'[p])
              /\ GateHoldsNow(store', clock', proc'[p].key_name)]_vars

\* C3 as amended: the same, for the invocations whose timestamp write
\* succeeded (update_hello_timestamp drops the error of a failed CredWriteW and
\* the passphrase is released all the same, over the gate as it was).
C3_VerifiedReleaseRefreshesGate ==
    [][\A p \in Procs :
          (Ends(p) /\ ScenarioC(proc'[p])) =>
              /\ ReleasedCached(proc'[p])
              /\ GateWritten(proc'[p]) =>
                     GateHoldsNow(store', clock', proc'[p].key_name)]_vars

C3_Witness ==
    \E p \in Procs :
        /\ proc[p].pc = "exited"
        /\ ScenarioC(proc[p]) /\ GateWritten(proc[p])
        /\ GateHoldsNow(store, clock, proc[p].key_name)
        /\ \E i \in GateReads(proc[p]) : proc[p].calls[i].res = "found"

---------------------------------------------------------------------------
(* C4 *)

\* scenario A: no cached passphrase, the user typed a passphrase and checked
\* "remember", and both store writes succeeded
ScenarioA(q) ==
    /\ HadNoCached(q)
    /\ q.entered # None /\ q.save
    /\ \E i \in CacheWrites(q) : q.calls[i].res = "written"
    /\ GateWritten(q)

\* C4 (scenario A, round trip): when such an invocation returns, the cache
\* read for its key yields exactly the text typed, the record holds that
\* text's UTF-8 bytes, and is_hello_valid is true for the key.
C4_RememberedPassphraseRoundTrip ==
    [][\A p \in Procs :
          (Ends(p) /\ ScenarioA(proc'[p])) =>
              LET q == proc'[p] IN
              /\ get_cached_passphrase(store', q.key_name) = q.entered
              /\ CredReadW(store', cred_name(q.key_name)) = Some(as_bytes(q.entered[1]))
              /\ q.stdout = q.entered[1]
              /\ is_hello_valid(store', clock', q.key_name) = {"true"}]_vars

\* a passphrase outside ASCII went through the round trip
C4_Witness ==
    \E p \in Procs :
        /\ proc[p].pc = "exited" /\ ScenarioA(proc[p])
        /\ \E i \in 1..Len(proc[p].entered[1]) : proc[p].entered[1][i] > 65535
        /\ get_cached_passphrase(store, proc[p].key_name) = proc[p].entered

---------------------------------------------------------------------------
(* C5 *)

\* the keys of the prompts the program is started with
FlowKeys == {extract_key_name(pr) : pr \in Prompts}

\* a gate read that found no record, or one that does not parse as a u64
UnusableRead(c) == c.res = "not_found" \/ ParseU64(from_utf8_lossy(c.data)) = None

\* C5 (fail closed): whenever the gate record of a key is absent or its content
\* does not parse as an unsigned integer, is_hello_valid is false for it; and an
\* invocation that read such a gate goes on to ask Windows Hello, never to the
\* release.
C5_UnusableGateIsNotFresh ==
    /\ \A key \in FlowKeys :
          LET r == CredReadW(store, hello_cred_name(key)) IN
          (r = None \/ ParseU64(from_utf8_lossy(r[1])) = None) =>
              is_hello_valid(store, clock, key) = {"false"}
    /\ \A p \in Procs :
          LET q == proc[p] IN
          \A i \in GateReads(q) :
              UnusableRead(q.calls[i]) =>
                  IF i = Len(q.calls) THEN q.pc = "verify_with_hello"
                  ELSE q.calls[i + 1].api = "CheckAvailabilityAsync"

\* an invocation read a gate record that is there and does not parse
C5_Witness ==
    \E p \in Procs :
        \E i \in GateReads(proc[p]) :
            /\ proc[p].calls[i].res = "found"
            /\ ParseU64(from_utf8_lossy(proc[p].calls[i].data)) = None
            /\ proc[p].pc = "verify_with_hello"

---------------------------------------------------------------------------
(* C6 *)

\* is_hello_valid for key is true exactly when less than 300 seconds have
\* passed since t
FreshWithinWindow(key, t) ==
    is_hello_valid(store, clock, key) = {IF clock - t < 300 THEN "true" ELSE "false"}

\* C6 as claimed (TTL window): after update_hello_timestamp ran for a key at
\* time t, with no later refresh and the session store untouched (the process
\* has ended and nothing else ran since), is_hello_valid at a time t' >= t is
\* true if and only if t' - t < 300.
C6_Original ==
    \A p \in Procs :
        LET q == proc[p] IN
        (q.pc = "exited" /\ GateWrites(q) # {}) =>
            FreshWithinWindow(q.key_name, q.calls[CHOOSE i \in GateWrites(q) : TRUE].at)

\* C6 as amended: the same after a refresh whose store write succeeded, for
\* as long as the record is not written again, removed or cleared with the
\* session; a second refresh starts the window again.
C6_TtlWindow ==
    /\ \A p \in Procs :
          LET q == proc[p] IN
          (q.pc = "exited" /\ GateWritten(q)) =>
              FreshWithinWindow(q.key_name, q.calls[CHOOSE i \in GateWrites(q) : TRUE].at)
    /\ \A key \in FlowKeys :
          hello_cred_name(key) \in DOMAIN refreshed =>
              FreshWithinWindow(key, refreshed[hello_cred_name(key)])

\* two invocations were started, and it is exactly 300 seconds after the last
\* refresh of a key
C6_Witness ==
    /\ started = 2
    /\ \E key \in FlowKeys :
          /\ hello_cred_name(key) \in DOMAIN refreshed
          /\ clock - refreshed[hello_cred_name(key)] = 300
          /\ is_hello_valid(store, clock, key) = {"false"}
---------------------------------------------------------------------------
(* C7, C8 *)

\* the invocation took the host-key path, or the passphrase path
OnHostKeyPath(q) == q.pc = "prompt_yes_no" \/ Calls(q, {"MessageBoxW"}) # {}
OnPassphrasePath(q) == q.pc # "idle" /\ ~OnHostKeyPath(q)

IsSep(c) == c \in {Ch.slash, Ch.bslash}

Apostrophes(s) == {i \in 1..Len(s) : s[i] = Ch.apos}

Min(S) == CHOOSE x \in S : \A y \in S : x <= y
Max(S) == CHOOSE x \in S : \A y \in S : x >= y

\* the text between the first and the second apostrophe
Quoted(s) ==
    LET first == Min(Apostrophes(s))
        second == Min(Apostrophes(s) \ {first})
    IN  SubSeq(s, first + 1, second - 1)

\* the last non-empty segment of a path split at "/" and at "\"
LastSegment(path) ==
    LET last == Max({i \in 1..Len(path) : ~IsSep(path[i])})
        first == Min({i \in 1..last : \A j \in i..last : ~IsSep(path[j])})
    IN  SubSeq(path, first, last)

\* C7 as claimed (key identity extraction): for a prompt with a quoted text, the
\* key name is the last non-empty segment of that text split at "/" and "\",
\* or the text itself when it has no separator; for a prompt without a quoted
\* text it is "default".
C7_Original ==
    \A p \in Procs :
        LET q == proc[p] IN
        OnPassphrasePath(q) =>
            IF Cardinality(Apostrophes(q.prompt)) < 2 THEN q.key_name = StrDefault
            ELSE IF \A i \in 1..Len(Quoted(q.prompt)) : ~IsSep(Quoted(q.prompt)[i])
                 THEN q.key_name = Quoted(q.prompt)
            ELSE (\E i \in 1..Len(Quoted(q.prompt)) : ~IsSep(Quoted(q.prompt)[i])) =>
                     q.key_name = LastSegment(Quoted(q.prompt))

\* C8 as claimed (the key identifier is never empty): the key name of every
\* invocation on the passphrase path is a non-empty text, and so is the part
\* after "wsl-ssh-askpass:" of every record name it reads or writes.
C8_Original ==
    \A p \in Procs :
        LET q == proc[p] IN
        OnPassphrasePath(q) =>
            /\ q.key_name # <<>>
            /\ \A i \in Calls(q, StoreApis) :
                  Len(q.calls[i].arg) > Len(CRED_PREFIX) + 1

---------------------------------------------------------------------------
(* C9 *)

\* a is b, or b is a lower-case letter and a is its capital
SameIgnoringCase(a, b) == a = b \/ (b \in 97..122 /\ a = b - 32)

\* s holds the lower-case token t somewhere, capitals and small letters alike
ContainsIgnoringCase(s, t) ==
    \E i \in 0..(Len(s) - Len(t)) :
        \A j \in 1..Len(t) : SameIgnoringCase(s[i + j], t[j])

\* C9 (prompt classification): an invocation takes the host-key path exactly
\* when its prompt holds "yes/no" or "fingerprint" in any mix of capitals, and
\* the passphrase path otherwise; on the host-key path it makes no call to the
\* credential store, and the store stays as it was (empty, in the one
\* invocation of a behaviour).
C9_Classification ==
    \A p \in Procs :
        LET q == proc[p] IN
        q.pc # "idle" =>
            /\ OnHostKeyPath(q) <=>
                   (\/ ContainsIgnoringCase(q.prompt, StrYesNo)
                    \/ ContainsIgnoringCase(q.prompt, StrFingerprint))
            /\ OnHostKeyPath(q) =>
                   /\ Calls(q, StoreApis) = {}
                   /\ store = <<>> /\ refreshed = <<>>
                   /\ q.pc \in {"prompt_yes_no", "exited"}
            /\ ~OnHostKeyPath(q) =>
                   (q.pc = "get_cached_passphrase" \/ CacheReads(q) # {})

\* a prompt that holds a token only in capitals was answered by the message box
C9_Witness ==
    \E p \in Procs :
        /\ proc[p].pc = "exited"
        /\ Calls(proc[p], {"MessageBoxW"}) # {}
        /\ ~Contains(proc[p].prompt, StrFingerprint)
        /\ ~Contains(proc[p].prompt, StrYesNo)
        /\ ContainsIgnoringCase(proc[p].prompt, StrFingerprint)

---------------------------------------------------------------------------
(* C10 *)

\* C10 (process outcome): a host-key invocation ends with exactly "yes" or
\* "no" printed ("yes" for the Yes button) and exit code 0; a passphrase
\* invocation that obtained a passphrase (typed into the dialog, or the cached
\* one) ends with exactly that passphrase printed and exit code 0; one whose
\* dialog was cancelled or failed ends with nothing printed and exit code 1.
C10_ProcessOutcome ==
    \A p \in Procs :
        LET q == proc[p] IN
        /\ q.pc # "exited" => (q.stdout = <<>> /\ q.exit = -1)
        /\ (q.pc = "exited" /\ OnHostKeyPath(q)) =>
              /\ q.exit = 0
              /\ q.stdout = IF q.calls[1].res = "IDYES" THEN StrYes ELSE StrNo
        /\ (Exited(q) /\ OnPassphrasePath(q)) =>
              IF \E i \in Calls(q, DialogApis) : q.calls[i].res = "cancel"
              THEN q.exit = 1 /\ q.stdout = <<>>
              ELSE IF q.entered # None
              THEN q.exit = 0 /\ q.stdout = q.entered[1]
              ELSE q.exit = 0 /\ HadCached(q) /\ as_bytes(q.stdout) = CachedBlob(q)

\* a cancelled dialog after a failed Windows Hello check ended the process
C10_Witness ==
    \E p \in Procs :
        /\ proc[p].pc = "exited" /\ proc[p].exit = 1
        /\ HelloAsked(proc[p])
        /\ \E i \in Calls(proc[p], DialogApis) : proc[p].calls[i].res = "cancel"

---------------------------------------------------------------------------
(* C11 *)

\* the last call q made is the write of the gate record of its key, and the
\* blob written is the time of that call in decimal digits
RefreshedBeforeReturn(q) ==
    /\ q.calls # <<>>
    /\ LET w == q.calls[Len(q.calls)]
       IN  /\ w.api = "CredWriteW"
           /\ w.arg = hello_cred_name(q.key_name)
           /\ ParseU64(from_utf8_lossy(w.data)) = Some(w.at)

\* handle_passphrase returned Some(passphrase): the process printed it
ReturnedSome(q) == q.pc = "exited" /\ OnPassphrasePath(q) /\ q.exit = 0

\* C11 (refresh on release): every invocation of the passphrase flow that
\* returned a passphrase, the cached one (gate fresh or Windows Hello verified)
\* or the one typed into the dialog (remember checked or not), made exactly one
\* write of the gate record of its key, with the time of the write, as its last
\* call before it returned, whether or not that write succeeded; and a
\* passphrase is held for release only by a process that has that write ahead.
C11_RefreshOnRelease ==
    \A p \in Procs :
        LET q == proc[p] IN
        /\ ReturnedSome(q) =>
              /\ RefreshedBeforeReturn(q)
              /\ Cardinality(GateWrites(q)) = 1
        /\ (q.pc # "exited" /\ q.pass # None) =>
              /\ q.pc \in {"cache_passphrase", "update_hello_timestamp"}
              /\ GateWrites(q) = {}

\* a cached passphrase was released after Windows Hello verified, and the
\* write of the gate record was attempted and failed
C11_Witness ==
    \E p \in Procs :
        /\ ReturnedSome(proc[p]) /\ HelloVerified(proc[p])
        /\ RefreshedBeforeReturn(proc[p])
        /\ proc[p].calls[Len(proc[p].calls)].res = "error"

---------------------------------------------------------------------------
(* C12 *)

\* the record under a name: its blob and persistence, or None
Record(st, name) == IF name \in DOMAIN st THEN Some(st[name]) ELSE None

\* a step of the program, not of its environment
ProgramStep == proc' # proc

\* process p, with key as its key, writes the passphrase the user typed with
\* "remember" checked
RememberWrite(p, key) ==
    /\ proc[p].pc = "cache_passphrase" /\ proc'[p].pc = "update_hello_timestamp"
    /\ proc[p].key_name = key
    /\ proc[p].entered # None /\ proc[p].save
    /\ Calls(proc[p], DialogApis) # {}

\* C12 as claimed (cache written only on opt-in, never evicted): in every step
\* of the program that changes the passphrase record of an identifier, an
\* invocation for that identifier writes the passphrase its user typed into
\* the dialog with "remember" checked, and the record then holds that
\* passphrase in the durable scope; no step of the program removes the record.
C12_Original ==
    [][\A key \in AliasKeys :
          LET name == cred_name(key) IN
          (ProgramStep /\ Record(store', name) # Record(store, name)) =>
              \E p \in Procs :
                  /\ RememberWrite(p, key)
                  /\ Record(store', name) =
                         Some([blob |-> as_bytes(proc[p].entered[1]),
                               persist |-> "LOCAL_MACHINE"])]_vars

---------------------------------------------------------------------------
(* C13 *)

\* the gate record read in call c did not hold a timestamp of the 300 seconds
\* before the read: absent, not a number, later than the clock, or older
OutsideWindow(c) ==
    LET parsed == ParseU64(from_utf8_lossy(c.data))
    IN  \/ c.res = "not_found"
        \/ parsed = None
        \/ parsed[1] > c.at
        \/ c.at - parsed[1] >= 300

\* C13 as claimed (is_fresh never raises): whatever the gate record holds
\* (nothing, no number, any number, a timestamp later than the clock),
\* an invocation that reads it is not aborted by is_hello_valid but goes on
\* with true or false, and with false (on to Windows Hello) whenever the
\* record does not hold a timestamp of the 300 seconds before the read.
C13_Original ==
    \A p \in Procs :
        LET q == proc[p] IN
        \A i \in GateReads(q) :
            /\ q.exit # 101
            /\ i = Len(q.calls) => q.pc \in {"verify_with_hello", "update_hello_timestamp"}
            /\ OutsideWindow(q.calls[i]) =>
                  IF i = Len(q.calls) THEN q.pc = "verify_with_hello"
                  ELSE q.calls[i + 1].api = "CheckAvailabilityAsync"

---------------------------------------------------------------------------
(* C14 *)

\* after call i, verify_with_hello returned false: the password dialog follows
FellToDialog(q, i) ==
    IF i = Len(q.calls) THEN q.pc = "prompt_for_password"
    ELSE q.calls[i + 1].api \in DialogApis

\* after call i, verify_with_hello returned true: the release of the cached
\* passphrase follows, with the write of the gate record
WentToRelease(q, i) ==
    /\ q.pass = q.cached /\ q.cached # None
    /\ IF i = Len(q.calls) THEN q.pc = "update_hello_timestamp"
       ELSE /\ q.calls[i + 1].api = "CredWriteW"
            /\ q.calls[i + 1].arg = hello_cred_name(q.key_name)

\* C14 (biometric verify collapse): verify_with_hello is true only when the
\* verification request returned "Verified"; when the availability query
\* returns anything but "Available", an error included, no verification
\* request is made and the result is false; an error of the interop factory
\* or of the verification request, and any other result of the request, give
\* false; no outcome of the calls ends the process with an error.
C14_VerifyCollapse ==
    \A p \in Procs :
        LET q == proc[p]
            avail == Calls(q, {"CheckAvailabilityAsync"})
            req == Calls(q, {"RequestVerificationForWindowAsync"})
        IN  /\ Cardinality(avail) <= 1 /\ Cardinality(req) <= 1
            /\ \A i \in avail :
                  IF q.calls[i].res = "Available"
                  THEN i + 1 \in req \/ (req = {} /\ FellToDialog(q, i))
                  ELSE req = {} /\ FellToDialog(q, i)
            /\ \A j \in req :
                  /\ j - 1 \in avail
                  /\ IF q.calls[j].res = "Verified"
                     THEN WentToRelease(q, j)
                     ELSE FellToDialog(q, j)
            /\ (HelloAsked(q) /\ q.pass # None /\ Calls(q, DialogApis) = {}) =>
                  HelloVerified(q)
            /\ HelloAsked(q) => q.exit \in {-1, 0, 1}

\* Windows Hello was not available, or the query failed, and the invocation
\* went on to the dialog and returned what was typed
C14_Witness ==
    \E p \in Procs :
        LET q == proc[p] IN
        /\ q.pc = "exited" /\ q.exit = 0
        /\ \E i \in Calls(q, {"CheckAvailabilityAsync"}) : q.calls[i].res = "error"
        /\ Calls(q, {"RequestVerificationForWindowAsync"}) = {}
        /\ q.stdout = q.entered[1]

---------------------------------------------------------------------------
(* C15 *)

\* the last call q made
LastCall(q) == q.calls[Len(q.calls)]

\* in this step p reads the passphrase record and the read fails
CacheReadFails(p) ==
    /\ proc[p].pc = "get_cached_passphrase" /\ proc'[p].pc # "get_cached_passphrase"
    /\ LastCall(proc'[p]).res = "not_found"

\* in this step p makes a store write that fails
WriteFails(p, pc) ==
    /\ proc[p].pc = pc /\ proc'[p].pc # pc
    /\ LastCall(proc'[p]).api = "CredWriteW" /\ LastCall(proc'[p]).res = "error"

\* a failed read of the passphrase record is a cache miss, and an invocation
\* whose user typed a passphrase returns it whatever became of the writes
MissAndReturn(p) ==
    /\ CacheReadFails(p) =>
          proc'[p].cached = None /\ proc'[p].pc = "prompt_for_password"
    /\ WriteFails(p, "cache_passphrase") =>
          proc'[p].pc = "update_hello_timestamp" /\ proc'[p].pass = proc[p].pass
    /\ (Ends(p) /\ proc'[p].entered # None) =>
          proc'[p].exit = 0 /\ proc'[p].stdout = proc'[p].entered[1]

\* C15 as claimed (store failures are non-fatal): a failed read of the
\* passphrase record is a cache miss and leads to the dialog; when the cache
\* write or the gate write fails after the user typed a passphrase, that
\* passphrase is still returned; and after a failed gate write the gate of
\* that key is not fresh for the next request.
C15_Original ==
    [][\A p \in Procs :
          /\ MissAndReturn(p)
          /\ (WriteFails(p, "update_hello_timestamp") /\ proc'[p].entered # None) =>
                is_hello_valid(store', clock', proc'[p].key_name) = {"false"}]_vars

\* C15 as amended: the same, but a failed write leaves the store as it was,
\* so that after a failed gate write the gate is for the next request what
\* the record of an earlier request makes it: fresh if that record still is.
C15_StoreFailuresNonFatal ==
    [][\A p \in Procs :
          /\ MissAndReturn(p)
          /\ (WriteFails(p, "cache_passphrase") \/ WriteFails(p, "update_hello_timestamp")) =>
                /\ store' = store
                /\ is_hello_valid(store', clock', proc'[p].key_name) =
                       is_hello_valid(store, clock, proc[p].key_name)]_vars

\* the user typed a passphrase, both writes failed, and it was returned
C15_Witness ==
    \E p \in Procs :
        LET q == proc[p] IN
        /\ q.pc = "exited" /\ q.entered # None /\ q.save
        /\ \A i \in Calls(q, {"CredWriteW"}) : q.calls[i].res = "error"
        /\ Cardinality(Calls(q, {"CredWriteW"})) = 2
        /\ q.exit = 0 /\ q.stdout = q.entered[1]

---------------------------------------------------------------------------
(* C16 *)

\* handle_passphrase is done: Some(passphrase) printed with exit code 0, or
\* None and exit code 1
Done(q) ==
    /\ q.pc = "exited"
    /\ \/ q.exit = 0 /\ q.pass # None /\ q.stdout = q.pass[1]
       \/ q.exit = 1 /\ q.pass = None /\ q.stdout = <<>>

\* the most calls one invocation makes: two reads, the two Windows Hello
\* calls, the dialog, two writes
CallsOfOneFlow == 7

\* C16 as claimed (termination without retry): an invocation of the
\* passphrase flow reads the cache at most once, asks Windows Hello to verify
\* at most once and shows the dialog at most once, makes a bounded number of
\* calls (it has no loop), and when its process has ended it is Done with
\* Some(passphrase) or None.
C16_Original ==
    \A p \in Procs :
        LET q == proc[p] IN
        OnPassphrasePath(q) =>
            /\ Cardinality(CacheReads(q)) <= 1
            /\ Cardinality(Calls(q, {"RequestVerificationForWindowAsync"})) <= 1
            /\ Cardinality(Calls(q, DialogApis)) <= 1
            /\ Len(q.calls) <= CallsOfOneFlow
            /\ q.pc = "exited" => Done(q)

---------------------------------------------------------------------------
(* C17 *)

\* the place of a control point in the flow
Rank(pc) ==
    CASE pc = "idle" -> 0
      [] pc = "get_cached_passphrase" -> 1
      [] pc = "is_hello_valid" -> 2
      [] pc = "verify_with_hello" -> 3
      [] pc = "prompt_for_password" -> 4
      [] pc = "cache_passphrase" -> 5
      [] pc = "update_hello_timestamp" -> 6
      [] OTHER -> 7

KeyOfPromptKey == extract_key_name(PromptKey)

\* what the users of the running and ended invocations typed, as bytes
TypedBlobs == {as_bytes(t) : t \in Passphrases}

\* process p has a step to take: at the gate check one for an outcome of
\* is_hello_valid, elsewhere one of the other steps of the flow
CanStep(p) ==
    IF proc[p].pc = "is_hello_valid"
    THEN is_hello_valid(store, clock, proc[p].key_name) # {}
    ELSE ENABLED (\/ GetCachedPassphrase(p)
                  \/ \E outcome \in HelloOutcomes : VerifyWithHello(p, outcome)
                  \/ PromptCancelled(p)
                  \/ \E ok \in BOOLEAN : CachePassphrase(p, ok)
                  \/ \E ok \in BOOLEAN : UpdateHelloTimestamp(p, ok))

\* the store holds no record but the passphrase record and the gate record of
\* the key, the passphrase record holds what some user typed, whole, and a
\* running process is never blocked by the other
OneRecordEach ==
    /\ DOMAIN store \subseteq {cred_name(KeyOfPromptKey), hello_cred_name(KeyOfPromptKey)}
    /\ cred_name(KeyOfPromptKey) \in DOMAIN store =>
          store[cred_name(KeyOfPromptKey)].blob \in TypedBlobs
    /\ \A p \in Procs : Running(p) => CanStep(p)

\* a step of a running process takes it forward in the flow; a successful
\* "remember" write leaves the passphrase record holding what its writer
\* typed, whatever the other process wrote before; no other step of a process
\* changes that record
LastWriterWins ==
    \A p \in Procs :
        LET name == cred_name(KeyOfPromptKey) IN
        (Running(p) /\ proc'[p] # proc[p]) =>
            /\ Rank(proc'[p].pc) > Rank(proc[p].pc)
            /\ IF RememberWrite(p, KeyOfPromptKey) /\ LastCall(proc'[p]).res = "written"
               THEN Record(store', name) =
                        Some([blob |-> as_bytes(proc[p].entered[1]),
                              persist |-> "LOCAL_MACHINE"])
               ELSE Record(store', name) = Record(store, name)

\* C17 (concurrent invocations on one identifier): in every interleaving of
\* two invocations for the same key, each process goes forward with every
\* step it takes and always has a step to take until it has ended (so both
\* terminate), the store holds at most the one passphrase record and the one
\* gate record of the key, and the passphrase record is always the value of the
\* last successful "remember" write: a text one user typed, never a mixture.
C17_ConcurrentLastWriterWins == []OneRecordEach /\ [][LastWriterWins]_vars

\* both processes are past a successful "remember" write, of different
\* passphrases, and neither has ended
C17_Witness ==
    /\ \A p \in Procs :
          /\ proc[p].pc = "update_hello_timestamp"
          /\ \E i \in CacheWrites(proc[p]) : proc[p].calls[i].res = "written"
    /\ proc[1].entered # proc[2].entered
    /\ store[cred_name(KeyOfPromptKey)].blob \in
          {as_bytes(proc[1].entered[1]), as_bytes(proc[2].entered[1])}

---------------------------------------------------------------------------
(* C18 *)

\* the password dialog of q was cancelled or failed
Cancelled(q) == \E i \in Calls(q, DialogApis) : q.calls[i].res = "cancel"

\* an invocation whose dialog was cancelled has ended with None (nothing
\* printed, exit code 1) and has made no write to the store
CancelledWroteNothing ==
    \A p \in Procs :
        LET q == proc[p] IN
        Cancelled(q) =>
            /\ q.pc = "exited" /\ q.exit = 1 /\ q.stdout = <<>> /\ q.pass = None
            /\ Calls(q, {"CredWriteW"}) = {}
            /\ LastCall(q).api \in DialogApis

\* the store changes in a step of a process only by a successful CredWriteW
\* of that process, which is then the last of its calls; the step in which
\* the dialog is cancelled leaves the store as it is
WritesAreCalls ==
    \A p \in Procs :
        /\ (proc'[p] # proc[p] /\ store' # store) =>
              /\ Len(proc'[p].calls) = Len(proc[p].calls) + 1
              /\ LastCall(proc'[p]).api = "CredWriteW"
              /\ LastCall(proc'[p]).res = "written"
        /\ (~Cancelled(proc[p]) /\ Cancelled(proc'[p])) =>
              store' = store /\ refreshed' = refreshed

\* C18 (cancel leaves state unchanged): an invocation whose password dialog
\* is cancelled or fails returns None and writes no record of any identifier,
\* neither a passphrase record nor a gate record: none of its steps changes
\* the store.
C18_CancelLeavesStoreUnchanged == []CancelledWroteNothing /\ [][WritesAreCalls]_vars

\* the dialog was cancelled after a failed Windows Hello check over a stale
\* gate: the cached passphrase is as it was read and the gate is still stale
C18_Witness ==
    \E p \in Procs :
        LET q == proc[p] IN
        /\ Cancelled(q) /\ HadCached(q) /\ SawStaleGate(q) /\ HelloAsked(q)
        /\ CredReadW(store, cred_name(q.key_name)) = Some(CachedBlob(q))
        /\ \E i \in GateReads(q) : q.calls[i].res = "found"
        /\ is_hello_valid(store, clock, q.key_name) = {"false"}

---------------------------------------------------------------------------
(* C19 *)

\* the names of the two records of a key
RecordNames(key) == {cred_name(key), hello_cred_name(key)}

\* C19 as claimed (cross-identifier isolation): for an invocation for key A
\* and every other key B, the names of the passphrase records and the gate
\* records of A and B are four different names, and no step of the invocation
\* changes the passphrase record or the gate record of B; in particular its
\* write of the gate timestamp leaves every passphrase record as it was.
C19_Original ==
    [][\A p \in Procs : \A B \in AliasKeys :
          LET A == proc[p].key_name IN
          (Running(p) /\ proc'[p] # proc[p] /\ store' # store /\ B # A) =>
              /\ Cardinality(RecordNames(A) \cup RecordNames(B)) = 4
              /\ \A name \in RecordNames(B) : Record(store', name) = Record(store, name)
              /\ proc[p].pc = "update_hello_timestamp" =>
                    \A key \in AliasKeys :
                        Record(store', cred_name(key)) = Record(store, cred_name(key))]_vars

---------------------------------------------------------------------------
(* C20 *)

\* a request for key made now would be answered with the cached passphrase
\* without Windows Hello and without the dialog: a passphrase is cached and
\* is_hello_valid is true
ReleaseEnabled(key) ==
    /\ get_cached_passphrase(store, key) # None
    /\ "true" \in is_hello_valid(store, clock, key)

\* q read a gate last refreshed 300 or more seconds before
SawExpiredGate(q) ==
    \E i \in GateReads(q) :
        /\ TimestampRead(q.calls[i])
        /\ q.calls[i].at - ParseU64(from_utf8_lossy(q.calls[i].data))[1] >= 300

\* over a gate that had expired, and after a failed Windows Hello check, the
\* user typed a passphrase that is not the cached one, with "remember"
\* unchecked, and it was returned
TypedAnotherPassphrase(q) ==
    /\ ReturnedSome(q) /\ HadCached(q) /\ SawExpiredGate(q)
    /\ HelloAsked(q) /\ ~HelloVerified(q)
    /\ q.entered # None /\ ~q.save
    /\ as_bytes(q.entered[1]) # CachedBlob(q)

\* C20 as claimed (gated release): an invocation returns the cached passphrase
\* without the dialog only if Windows Hello verified in it or it read a fresh
\* gate; and an invocation in which, the last refresh of the gate being 300
\* or more seconds old and the Windows Hello check failed, a passphrase other
\* than the cached one was typed with "remember" unchecked leaves no state in
\* which the next request gets the cached passphrase without verification.
C20_Original ==
    \A p \in Procs :
        LET q == proc[p] IN
        /\ (ReturnedSome(q) /\ Calls(q, DialogApis) = {}) =>
              (HelloVerified(q) \/ SawFreshGate(q))
        /\ TypedAnotherPassphrase(q) => ~ReleaseEnabled(q.key_name)

=============================================================================
